---- MODULE Spec2Model ----
(***************************************************************************)
(* Recipe Explorer CLI: the interactive layer of src/src/app.js on top of  *)
(* the Cache Engine (cache.js) and the Favorites Engine (favorites.js).    *)
(*                                                                         *)
(* app.js is translated statement by statement.  cache.js, favorites.js    *)
(* and api.js are not part of the sources at hand; the engines are         *)
(* modelled from spec.md sections 4 and 5 (an in-memory mapping loaded at  *)
(* startup and flushed to its file on every mutation, persistence reads    *)
(* and writes being suspension points) and the remote API is an            *)
(* environment that resolves or rejects.                                   *)
(*                                                                         *)
(* Scheduling: one JavaScript thread.  A menu choice runs synchronously    *)
(* (readline-sync blocks) up to its first awaited remote call or           *)
(* persistence write; callbacks of other pending work run only while the   *)
(* main flow is suspended at such an await.                                *)
(***************************************************************************)
EXTENDS Integers, Sequences, FiniteSets, TLC

\* ------------------------------------------------------------- bounds
MaxOps == 2
MaxTime == 2
MaxLetters == 4
MaxOther == 3
MaxQuery == 2

\* ------------------------------------------------------------ strings
\* A string is a sequence of one-character strings.
Lower(c) ==
    CASE c = "A" -> "a"
      [] c = "B" -> "b"
      [] c = "E" -> "e"
      [] OTHER -> c

ToLowerCase(s) == [i \in 1..Len(s) |-> Lower(s[i])]

RECURSIVE TrimStart(_)
TrimStart(s) ==
    IF s # <<>> /\ Head(s) = " " THEN TrimStart(Tail(s)) ELSE s

RECURSIVE TrimEnd(_)
TrimEnd(s) ==
    IF s # <<>> /\ s[Len(s)] = " " THEN TrimEnd(SubSeq(s, 1, Len(s) - 1)) ELSE s

Trim(s) == TrimEnd(TrimStart(s))

\* a blank check that does not trim
BlankNoTrim(s) == s = <<>>
\* !x.trim(): the input is empty or whitespace only
Blank(s) == Trim(s) = <<>>

\* UTF-16 code unit order of the characters in use
CharOrder == <<" ", "1", "2", "A", "B", "E", "a", "b", "c", "e">>

Ord(c) == CHOOSE i \in 1..Len(CharOrder) : CharOrder[i] = c

\* Array.from(new Set(s)): distinct elements in order of first occurrence
RECURSIVE SetOrder(_)
SetOrder(s) ==
    IF s = <<>> THEN <<>>
    ELSE LET init == SetOrder(SubSeq(s, 1, Len(s) - 1))
             last == s[Len(s)]
         IN IF \E i \in 1..Len(init) : init[i] = last
            THEN init ELSE Append(init, last)

Slice3(s) == SubSeq(s, 1, IF Len(s) < 3 THEN Len(s) ELSE 3)

RECURSIVE InsertSorted(_, _)
InsertSorted(c, s) ==
    IF s = <<>> THEN <<c>>
    ELSE IF Ord(c) < Ord(Head(s)) THEN <<c>> \o s
    ELSE <<Head(s)>> \o InsertSorted(c, Tail(s))

\* Array.prototype.sort() on one-character strings
RECURSIVE Sort(_)
Sort(s) == IF s = <<>> THEN <<>> ELSE InsertSorted(Head(s), Sort(Tail(s)))

UniqueLetters(letters) == Slice3(SetOrder(ToLowerCase(letters)))

\* --------------------------------------------------------- cache keys
NoKey == [kind |-> "none", arg |-> <<>>]
SearchKey(query) == [kind |-> "search", arg |-> ToLowerCase(query)]
RecipeKey(recipeId) == [kind |-> "recipe", arg |-> recipeId]
\* a letters key that keeps the letters in the order typed
LettersKeyUnsorted(letters) == [kind |-> "letters", arg |-> UniqueLetters(letters)]
LettersKey(letters) == [kind |-> "letters", arg |-> Sort(UniqueLetters(letters))]
IngredientKey(ingredient) == [kind |-> "ingredient", arg |-> ToLowerCase(ingredient)]

\* line 188 sorts the array uniqueLetters in place, and the producer of
\* line 189 passes that same array to api.searchMealsByFirstLetter
ApiLetters(letters) == Sort(UniqueLetters(letters))

\* ------------------------------------------------- recipes and values
Ids == {<<"1">>, <<"2">>}
NoId == <<>>
Recipe(id, ver) == [idMeal |-> id, ver |-> ver]

\* what a remote call resolves with, and what a cache entry holds
VNull == [t |-> "null", l |-> <<>>]
VList(l) == [t |-> "list", l |-> l]
VRecipe(r) == [t |-> "recipe", l |-> <<r>>]
VString == [t |-> "string", l |-> <<>>]

\* the user's typed input
SearchInputs == {<<>>, <<" ">>, <<"a">>, <<"A">>}
IdInputs == {<<>>, <<"1">>}
LetterInputs == {<<" ", " ">>, <<"b", "a">>, <<"A", "b", "a">>}
IngredientInputs == {<<>>, <<"e">>, <<"E">>}

\* what the remote API can resolve with
SearchResults == {VList(<<>>), VList(<<Recipe(<<"1">>, 1)>>)}
LetterResults == {VNull, VList(<<Recipe(<<"1">>, 1), Recipe(<<"2">>, 1)>>)}
DetailResults(id) == {VNull, VRecipe(Recipe(id, 1))}
RandomRecipes == {Recipe(<<"1">>, 1), Recipe(<<"1">>, 2), Recipe(<<"2">>, 1)}
RandomResults == {VNull} \cup {VRecipe(r) : r \in RandomRecipes}

ApiResults(key) ==
    CASE key.kind = "search" -> SearchResults
      [] key.kind = "letters" -> LetterResults
      [] key.kind = "recipe" -> DetailResults(key.arg)
      [] OTHER -> {}

\* ------------------------------------------------------- Cache Engine
\* default time-to-live of an entry
TTL == 1

Entry(key, value, expiresAt) == [key |-> key, value |-> value, expiresAt |-> expiresAt]

\* the valid (unexpired) entries of a cache under a key
Hits(c, key, t) == {e \in c : e.key = key /\ e.expiresAt > t}

\* store {key, value, expiresAt: now + ttl}
Store(c, key, value, t) ==
    {e \in c : e.key # key} \cup {Entry(key, value, t + TTL)}

\* clearExpiredCache: drop every entry whose expiresAt has passed
Sweep(c, t) == {e \in c : e.expiresAt > t}

\* --------------------------------------------------- Favorites Engine
\* a faulty isInFavorites, which never finds the id
InFavoritesNever(f, id) == FALSE

\* isInFavorites
InFavorites(f, id) == \E i \in 1..Len(f) : f[i].idMeal = id

\* addFavorite: overwrite the payload under an existing id, else append
AddFavorite(f, r) ==
    IF InFavorites(f, r.idMeal)
    THEN [i \in 1..Len(f) |-> IF f[i].idMeal = r.idMeal THEN r ELSE f[i]]
    ELSE Append(f, r)

\* removeFavorite: removing an absent id is a no-op
RemoveFavorite(f, id) == SelectSeq(f, LAMBDA x : x.idMeal # id)

RemoveAt(s, i) == SubSeq(s, 1, i - 1) \o SubSeq(s, i + 1, Len(s))


\* ---------------------------------------------------------- the state
VARIABLES
    pc,            \* where the main flow (main -> showMainMenu -> operation) stands
    exitCode,      \* process.exit code, -1 while the process runs
    now,           \* the clock
    ops,           \* menu choices 1-6 made so far
    menuShown,     \* the main menu has been shown at least once
    cacheMem,      \* Cache Engine: the in-memory entries
    cacheFile,     \* Cache Engine: the persistence file
    cachePending,  \* Cache Engine: persistence writes started and not yet complete
    cacheLoad,     \* initializeCache: "idle", "pending", "done"
    favMem,        \* Favorites Engine: the in-memory records, in insertion order
    favFile,       \* Favorites Engine: the persistence file
    favCorrupt,    \* the favorites file is unparseable
    favPending,    \* Favorites Engine: persistence writes started and not yet complete
    favLoad,       \* initializeFavorites: "idle", "pending", "done", "failed"
    cur,           \* the operation the main flow is suspended in
    detached,      \* viewRecipeDetails calls started without await, still running
    orphans,       \* getMealsByIngredient promises nobody holds, still pending
    escaped,       \* rejections no handler received: "init", "op"
    report,        \* what the last menu operation printed: "ok", "empty", "error"
    runs,          \* history: the last two cache lookups [op, key, hit, calls]
    view,          \* history: the last lookup or race that yielded a recipe
    want,          \* history: per recipe id, the user's last accepted add/remove
    last,          \* history: the last menu operation that asked for input
    race,          \* history: the last Promise.race of discoverRandom
    keyCase        \* two typed inputs of one prompt and the cache keys made of them

vars == <<pc, exitCode, now, ops, menuShown, cacheMem, cacheFile, cachePending,
          cacheLoad, favMem, favFile, favCorrupt, favPending, favLoad, cur,
          detached, orphans, escaped, report, runs, view, want, last, race,
         keyCase>>

cacheVars == <<cacheMem, cacheFile, cachePending, cacheLoad>>
favVars == <<favMem, favFile, favCorrupt, favPending, favLoad>>
histVars == <<runs, view, want, last, race>>

VReject == [t |-> "reject", l |-> <<>>]
NoOp == [op |-> "none", key |-> NoKey, val |-> VNull]
NoView == [op |-> "none", id |-> NoId, ver |-> 0, isFav |-> FALSE,
           offered |-> "none", accepted |-> FALSE, done |-> "none"]

NoLast == [op |-> "none", input |-> <<>>, src |-> "none", val |-> VNull,
           out |-> "none", offered |-> FALSE, pick |-> NoId]
NoRace == [first |-> VNull, later |-> FALSE, shown |-> VNull, calls |-> 0]

NoKeyCase == [kind |-> "none", a |-> <<>>, b |-> <<>>, ka |-> NoKey, kb |-> NoKey,
              api |-> <<>>]

\* files left by earlier runs: an entry that expired before this start,
\* and a valid entry of an ingredient search
OldEntry == Entry(SearchKey(<<"a">>), VList(<<Recipe(<<"1">>, 1)>>), 0)
IngredientEntry == Entry(IngredientKey(<<"e">>), VList(<<Recipe(<<"2">>, 1)>>), 1 + TTL)
InitCacheFile == {OldEntry, IngredientEntry}
InitFavFiles == {<<>>, <<Recipe(<<"1">>, 1)>>}

Started ==
    /\ pc = "start"
    /\ exitCode = -1
    /\ now = 1
    /\ ops = 0
    /\ menuShown = FALSE
    /\ cacheMem = {}
    /\ cacheFile = InitCacheFile
    /\ cachePending = {}
    /\ cacheLoad = "idle"
    /\ favMem = <<>>
    /\ favFile \in InitFavFiles
    /\ favCorrupt \in IF favFile = <<>> THEN BOOLEAN ELSE {FALSE}
    /\ favPending = <<>>
    /\ favLoad = "idle"
    /\ cur = NoOp
    /\ detached = {}
    /\ orphans = 0
    /\ escaped = {}
    /\ report = "none"
    /\ runs = <<>>
    /\ view = NoView
    /\ want = [id \in Ids |-> "any"]
    /\ last = NoLast
    /\ race = NoRace

Init ==
    /\ Started
    /\ keyCase = NoKeyCase

\* the event loop turns only while the main flow is suspended at an await
\* of a remote call or a persistence write; readline-sync prompts block it
Running == pc \in {"fetch", "save", "race"}

\* ------------------------------------------------------------ startup
\* initialize(): nothing in its try block is awaited, so no rejection of
\* initializeCache, initializeFavorites or clearExpiredCache reaches its
\* catch: it returns true
initialize == TRUE

\* main(): initialize() starts both loads and clearExpiredCache (which
\* sweeps the still empty in-memory cache and starts persisting it),
\* then the menu is shown
Main ==
    /\ pc = "start"
    /\ cacheLoad' = "pending"
    /\ favLoad' = "pending"
    /\ cacheMem' = Sweep(cacheMem, now)
    /\ cachePending' = cachePending \cup {[owner |-> 0, snap |-> cacheMem']}
    /\ IF initialize
       THEN /\ menuShown' = TRUE
            /\ pc' = "menu"
            /\ exitCode' = exitCode
       ELSE /\ menuShown' = menuShown
            /\ pc' = "exited"
            /\ exitCode' = 1
    /\ UNCHANGED <<now, ops, cacheFile, favMem, favFile, favCorrupt, favPending,
                   cur, detached, orphans, escaped, report, histVars>>
    /\ UNCHANGED keyCase

\* initializeCache settles: the in-memory cache becomes the file's content
CacheLoadDone ==
    /\ Running
    /\ cacheLoad = "pending"
    /\ cacheLoad' = "done"
    /\ cacheMem' = cacheFile
    /\ UNCHANGED <<pc, exitCode, now, ops, menuShown, cacheFile, cachePending,
                   favVars, cur, detached, orphans, escaped, report, histVars>>
    /\ UNCHANGED keyCase

\* initializeFavorites settles: loaded, or CorruptStoreError, a rejection of
\* the Promise.all promise nobody awaits
FavLoadDone ==
    /\ Running
    /\ favLoad = "pending"
    /\ IF favCorrupt
       THEN /\ favLoad' = "failed"
            /\ escaped' = escaped \cup {"init"}
            /\ favMem' = favMem
       ELSE /\ favLoad' = "done"
            /\ escaped' = escaped
            /\ favMem' = favFile
    /\ UNCHANGED <<pc, exitCode, now, ops, menuShown, cacheVars, favFile,
                   favCorrupt, favPending, cur, detached, orphans, report,
                   histVars>>
    /\ UNCHANGED keyCase

\* a pending write of the cache file that nobody awaits completes
\* (independent writes complete in any order)
CacheCommit ==
    /\ Running
    /\ \E p \in cachePending :
          /\ p.owner = 0
          /\ cacheFile' = p.snap
          /\ cachePending' = cachePending \ {p}
    /\ UNCHANGED <<pc, exitCode, now, ops, menuShown, cacheMem, cacheLoad,
                   favVars, cur, detached, orphans, escaped, report, histVars>>
    /\ UNCHANGED keyCase

\* a pending write of the favorites file completes
FavCommit ==
    /\ Running
    /\ \E i \in 1..Len(favPending) :
          /\ favFile' = favPending[i]
          /\ favPending' = RemoveAt(favPending, i)
    /\ UNCHANGED <<pc, exitCode, now, ops, menuShown, cacheVars, favMem,
                   favCorrupt, favLoad, cur, detached, orphans, escaped, report,
                   histVars>>
    /\ UNCHANGED keyCase

\* time passes while the user sits at the menu prompt
Tick ==
    /\ pc = "menu"
    /\ now < MaxTime
    /\ now' = now + 1
    /\ UNCHANGED <<pc, exitCode, ops, menuShown, cacheVars, favVars, cur,
                   detached, orphans, escaped, report, histVars>>
    /\ UNCHANGED keyCase


\* ---------------------------------------------------- menu operations
PushRun(R, r) == IF Len(R) < 2 THEN Append(R, r) ELSE <<R[2], r>>

Run(op, key, hit, calls) == [op |-> op, key |-> key, hit |-> hit, calls |-> calls]

NonEmptyList(v) == v.t = "list" /\ Len(v.l) > 0

\* what an operation prints once getCachedOrFetch has returned v:
\*   searchRecipes: a non-empty list reaches the bare keyInYN of line 71,
\*     a ReferenceError its catch reports;
\*   viewRecipeDetails: line 125 reads recipe, which is declared nowhere
\*     (the result is bound to recipes): a ReferenceError its catch reports;
\*   exploreByFirstLetter: the list is printed
ContReport(op, v) ==
    CASE op = "search" -> IF NonEmptyList(v) THEN "error" ELSE "ok"
      [] op = "details" -> "error"
      [] OTHER -> "ok"

\* what an operation prints of the value v itself: searchRecipes (line
\* 68) and exploreByFirstLetter (line 190) print the list; viewRecipeDetails
\* prints neither the recipe nor "No recipe found" (line 125 throws first)
ContOut(op, v) ==
    CASE op = "search" -> "shown"
      [] op = "letters" -> "shown"
      [] OTHER -> "none"

\* the numbers the user can answer to "view details for a recipe?":
\* 0 stands for no, and only exploreByFirstLetter gets to ask
ViewChoices(op, v) ==
    IF op = "letters" /\ NonEmptyList(v) THEN 0..Len(v.l) ELSE {0}

\* a lookup of viewRecipeDetails that yielded a recipe: the ReferenceError
\* of line 125 comes before isInFavorites, so nothing is offered
DetailsView(v) ==
    [op |-> "details", id |-> v.l[1].idMeal, ver |-> v.l[1].ver,
     isFav |-> InFavorites(favMem, v.l[1].idMeal), offered |-> "none",
     accepted |-> FALSE, done |-> "none"]

\* the rest of an operation after getCachedOrFetch returned v, the cache
\* being c: the report, and for exploreByFirstLetter with answer n > 0 the
\* call viewRecipeDetails(recipes[n - 1].idMeal) of line 203, not awaited.
\* That call runs to its own getCachedOrFetch: a hit ends it at once (line
\* 125), a miss calls api.getMealById and leaves it running, detached.
Finish(op, v, n, R, c, task, L) ==
    /\ report' = ContReport(op, v)
    /\ last' = [L EXCEPT !.val = v, !.out = ContOut(op, v),
                         !.offered = (ViewChoices(op, v) # {0}),
                         !.pick = IF n = 0 THEN NoId ELSE v.l[n].idMeal]
    /\ IF n = 0
       THEN /\ detached' = detached
            /\ runs' = R
            /\ view' = IF op = "details" /\ v.t = "recipe" THEN DetailsView(v) ELSE view
       ELSE LET id == v.l[n].idMeal
                key == RecipeKey(id)
                hits == Hits(c, key, now)
            IN IF hits # {}
               THEN /\ detached' = detached
                    /\ runs' = PushRun(R, Run("details", key, TRUE, 0))
                    /\ view' = LET e == CHOOSE e \in hits : TRUE
                               IN IF e.value.t = "recipe"
                                  THEN DetailsView(e.value) ELSE view
               ELSE /\ detached' = detached \cup
                          {[id |-> task, key |-> key, stage |-> "fetch", val |-> VNull]}
                    /\ runs' = PushRun(R, Run("details", key, FALSE, 1))
                    /\ view' = view

\* cache.getCachedOrFetch(key, () => api...) called by the main flow:
\* a hit returns the entry's value and the operation runs on to its end;
\* a miss invokes the producer and the operation waits for the remote call
Lookup(op, key, input) ==
    LET hits == Hits(cacheMem, key, now)
    IN IF hits # {}
       THEN /\ \E e \in hits : \E n \in ViewChoices(op, e.value) :
                  Finish(op, e.value, n, PushRun(runs, Run(op, key, TRUE, 0)), cacheMem,
                         ops + 1, [NoLast EXCEPT !.op = op, !.input = input, !.src = "hit"])
            /\ pc' = "menu"
            /\ cur' = NoOp
       ELSE /\ pc' = "fetch"
            /\ cur' = [op |-> op, key |-> key, val |-> VNull]
            /\ runs' = PushRun(runs, Run(op, key, FALSE, 1))
            /\ report' = "none"
            /\ last' = [NoLast EXCEPT !.op = op, !.input = input, !.src = "pending"]
            /\ UNCHANGED <<detached, view>>

\* the input was empty or whitespace only: a message, and back to the menu
EmptyInput(op, input) ==
    /\ report' = "empty"
    /\ last' = [NoLast EXCEPT !.op = op, !.input = input]
    /\ UNCHANGED <<pc, cur, detached, runs, view>>

\* menu choice 1
searchRecipes ==
    /\ pc = "menu"
    /\ ops < MaxOps
    /\ ops' = ops + 1
    /\ \E query \in SearchInputs :
          IF Blank(query) THEN EmptyInput("search", query)
          ELSE Lookup("search", SearchKey(query), query)
    /\ UNCHANGED <<exitCode, now, menuShown, cacheVars, favVars, orphans,
                   escaped, want, race>>
    /\ UNCHANGED keyCase

\* menu choice 2: recipeId is undefined, the id is asked for
viewRecipeDetails ==
    /\ pc = "menu"
    /\ ops < MaxOps
    /\ ops' = ops + 1
    /\ \E recipeId \in IdInputs :
          IF Blank(recipeId) THEN EmptyInput("details", recipeId)
          ELSE Lookup("details", RecipeKey(recipeId), recipeId)
    /\ UNCHANGED <<exitCode, now, menuShown, cacheVars, favVars, orphans,
                   escaped, want, race>>
    /\ UNCHANGED keyCase

\* menu choice 3
exploreByFirstLetter ==
    /\ pc = "menu"
    /\ ops < MaxOps
    /\ ops' = ops + 1
    /\ \E letters \in LetterInputs :
          IF Blank(letters) THEN EmptyInput("letters", letters)
          ELSE Lookup("letters", LettersKey(letters), letters)
    /\ UNCHANGED <<exitCode, now, menuShown, cacheVars, favVars, orphans,
                   escaped, want, race>>
    /\ UNCHANGED keyCase

\* what searchByIngredient prints: the second argument of getCachedOrFetch
\* is the promise api.getMealsByIngredient(ingredient, 5000) already
\* returned, not a function.  On a hit the cached value comes back: a
\* string is printed; anything else is printed and line 243 then reads
\* recipes, declared nowhere in this function (ReferenceError).  On a miss
\* the Cache Engine invokes its producer argument: a promise is not
\* callable (TypeError).  Either error is reported by the catch.
IngredientReport(hits) ==
    IF \E e \in hits : e.value = VString THEN "ok" ELSE "error"

\* what searchByIngredient prints of the value: the string (line 238), the
\* list (line 241), or nothing when getCachedOrFetch threw
IngredientOut(hits) ==
    IF hits = {} THEN "none"
    ELSE IF \E e \in hits : e.value = VString THEN "message" ELSE "shown"

\* menu choice 4: the remote call is made while the arguments of
\* getCachedOrFetch are evaluated, whatever the cache holds
searchByIngredient ==
    /\ pc = "menu"
    /\ ops < MaxOps
    /\ ops' = ops + 1
    /\ \E ingredient \in IngredientInputs :
          IF Blank(ingredient)
          THEN /\ EmptyInput("ingredient", ingredient)
               /\ orphans' = orphans
          ELSE LET key == IngredientKey(ingredient)
                   hits == Hits(cacheMem, key, now)
               IN /\ orphans' = orphans + 1
                  /\ runs' = PushRun(runs, Run("ingredient", key, hits # {}, 1))
                  /\ report' = IngredientReport(hits)
                  /\ last' = [NoLast EXCEPT
                        !.op = "ingredient", !.input = ingredient,
                        !.src = IF hits # {} THEN "hit" ELSE "thrown",
                        !.val = IF hits # {} THEN (CHOOSE e \in hits : TRUE).value ELSE VNull,
                        !.out = IngredientOut(hits)]
                  /\ UNCHANGED <<pc, cur, detached, view>>
    /\ UNCHANGED <<exitCode, now, menuShown, cacheVars, favVars, escaped, want,
                   race>>
    /\ UNCHANGED keyCase

\* menu choice 5: the list, and on request (n > 0) an awaited
\* viewRecipeDetails(favoriteRecipes[n - 1].idMeal)
viewFavorites ==
    /\ pc = "menu"
    /\ ops < MaxOps
    /\ ops' = ops + 1
    /\ IF favMem = <<>>
       THEN /\ report' = "ok"
            /\ last' = [NoLast EXCEPT !.op = "favorites"]
            /\ UNCHANGED <<pc, cur, detached, runs, view>>
       ELSE \E n \in 0..Len(favMem) :
               IF n = 0
               THEN /\ report' = "ok"
                    /\ last' = [NoLast EXCEPT !.op = "favorites"]
                    /\ UNCHANGED <<pc, cur, detached, runs, view>>
               ELSE Lookup("details", RecipeKey(favMem[n].idMeal), favMem[n].idMeal)
    /\ UNCHANGED <<exitCode, now, menuShown, cacheVars, favVars, orphans,
                   escaped, want, race>>
    /\ UNCHANGED keyCase

\* menu choice 6: three api.getRandomMeal() calls, and the wait for
\* Promise.race
discoverRandom ==
    /\ pc = "menu"
    /\ ops < MaxOps
    /\ ops' = ops + 1
    /\ pc' = "race"
    /\ cur' = [op |-> "random", key |-> NoKey, val |-> VNull]
    /\ report' = "none"
    /\ last' = [NoLast EXCEPT !.op = "random"]
    /\ UNCHANGED <<exitCode, now, menuShown, cacheVars, favVars, detached,
                   orphans, escaped, runs, view, want, race>>
    /\ UNCHANGED keyCase

\* menu choice 7: process.exit(0), whatever is still pending
Exit ==
    /\ pc = "menu"
    /\ pc' = "exited"
    /\ exitCode' = 0
    /\ UNCHANGED <<now, ops, menuShown, cacheVars, favVars, cur, detached,
                   orphans, escaped, report, histVars>>
    /\ UNCHANGED keyCase


\* ------------------------------------------- settling of awaited work
\* the remote call of the main flow's getCachedOrFetch settles: a
\* rejection propagates to the operation's catch and nothing is stored; a
\* value is stored under the key and the write of the cache file starts
FetchSettle ==
    /\ pc = "fetch"
    /\ \E o \in ApiResults(cur.key) \cup {VReject} :
          IF o = VReject
          THEN /\ report' = "error"
               /\ pc' = "menu"
               /\ cur' = NoOp
               /\ last' = [last EXCEPT !.src = "rejected"]
               /\ UNCHANGED <<cacheMem, cachePending>>
          ELSE /\ cacheMem' = Store(cacheMem, cur.key, o, now)
               /\ cachePending' = cachePending \cup {[owner |-> -1, snap |-> cacheMem']}
               /\ pc' = "save"
               /\ cur' = [cur EXCEPT !.val = o]
               /\ report' = report
               /\ last' = last
    /\ UNCHANGED <<exitCode, now, ops, menuShown, cacheFile, cacheLoad, favVars,
                   detached, orphans, escaped, runs, view, want, race>>
    /\ UNCHANGED keyCase

\* the write getCachedOrFetch awaited is complete: the value is returned
\* and the operation runs on to its end
AfterSave ==
    /\ pc = "save"
    /\ \E p \in cachePending :
          /\ p.owner = -1
          /\ cacheFile' = p.snap
          /\ cachePending' = cachePending \ {p}
    /\ \E n \in ViewChoices(cur.op, cur.val) :
          Finish(cur.op, cur.val, n, runs, cacheMem, ops,
                 [last EXCEPT !.src = "fetched"])
    /\ pc' = "menu"
    /\ cur' = NoOp
    /\ UNCHANGED <<exitCode, now, ops, menuShown, cacheMem, cacheLoad, favVars,
                   orphans, escaped, want, race>>
    /\ UNCHANGED keyCase

\* the remote call of a detached viewRecipeDetails settles
DetachedSettle ==
    /\ Running
    /\ \E t \in detached :
          /\ t.stage = "fetch"
          /\ \E o \in ApiResults(t.key) \cup {VReject} :
                IF o = VReject
                THEN /\ detached' = detached \ {t}
                     /\ UNCHANGED <<cacheMem, cachePending>>
                ELSE /\ cacheMem' = Store(cacheMem, t.key, o, now)
                     /\ cachePending' =
                           cachePending \cup {[owner |-> t.id, snap |-> cacheMem']}
                     /\ detached' = (detached \ {t}) \cup
                           {[t EXCEPT !.stage = "save", !.val = o]}
    /\ UNCHANGED <<pc, exitCode, now, ops, menuShown, cacheFile, cacheLoad,
                   favVars, cur, orphans, escaped, report, histVars>>
    /\ UNCHANGED keyCase

\* the write a detached viewRecipeDetails awaited is complete: it runs on
\* to the ReferenceError of line 125 and ends in its own catch
DetachedAfterSave ==
    /\ Running
    /\ \E t \in detached :
          /\ t.stage = "save"
          /\ \E p \in cachePending :
                /\ p.owner = t.id
                /\ cacheFile' = p.snap
                /\ cachePending' = cachePending \ {p}
          /\ detached' = detached \ {t}
          /\ view' = IF t.val.t = "recipe" THEN DetailsView(t.val) ELSE view
    /\ UNCHANGED <<pc, exitCode, now, ops, menuShown, cacheMem, cacheLoad, favVars,
                   cur, orphans, escaped, report, runs, want, last, race>>
    /\ UNCHANGED keyCase

\* lines 326-339: which question discoverRandom asks
FavoriteOffer(isFavorite) == IF isFavorite THEN "remove" ELSE "add"

\* lines 326-339: which Favorites Engine call follows the user's answer
FavoriteCall(isFavorite, answer) ==
    IF answer THEN FavoriteOffer(isFavorite) ELSE "none"

\* line 315: the number of api.getRandomMeal() calls discoverRandom starts
RandomCalls == 3

\* the outcomes of the calls, in the order in which they settle
SettleOrders == [1..RandomCalls -> RandomResults \cup {VReject}]

\* a race won by the first call to fulfil, rejections being passed over
FirstFulfilled(settled) ==
    IF \E i \in 1..RandomCalls : settled[i] # VReject
    THEN settled[CHOOSE i \in 1..RandomCalls :
                    /\ settled[i] # VReject
                    /\ \A j \in 1..(i - 1) : settled[j] = VReject]
    ELSE VReject

\* line 316, Promise.race: the outcome of the first call to settle, be it
\* a recipe, nothing or a rejection
RaceWinner(settled) == settled[1]

\* lines 316-339: the race settles.  A recipe is displayed, the user is
\* asked, and favorites.removeFavorite / favorites.addFavorite is called
\* without await: the in-memory records change at the call, the write of
\* the favorites file is left pending.
RaceSettle ==
    /\ pc = "race"
    /\ pc' = "menu"
    /\ cur' = NoOp
    /\ \E settled \in SettleOrders : \E answer \in BOOLEAN :
          LET w == RaceWinner(settled) IN
          /\ race' = [first |-> settled[1],
                      later |-> \E i \in 2..RandomCalls : settled[i].t = "recipe",
                      shown |-> IF w.t = "recipe" THEN w ELSE VNull,
                      calls |-> RandomCalls]
          /\ IF w.t # "recipe"
             THEN /\ report' = IF w = VReject THEN "error" ELSE "failed"
                  /\ answer
                  /\ UNCHANGED <<favMem, favPending, view, want>>
             ELSE LET r == w.l[1]
                      isFavorite == InFavorites(favMem, r.idMeal)
                      call == FavoriteCall(isFavorite, answer)
                  IN /\ report' = "ok"
                     /\ view' = [op |-> "random", id |-> r.idMeal, ver |-> r.ver,
                                 isFav |-> isFavorite,
                                 offered |-> FavoriteOffer(isFavorite),
                                 accepted |-> answer, done |-> call]
                     /\ favMem' = CASE call = "remove" -> RemoveFavorite(favMem, r.idMeal)
                                    [] call = "add" -> AddFavorite(favMem, r)
                                    [] OTHER -> favMem
                     /\ favPending' = IF call = "none" THEN favPending
                                      ELSE Append(favPending, favMem')
                     /\ want' = CASE call = "remove" -> [want EXCEPT ![r.idMeal] = "out"]
                                  [] call = "add" -> [want EXCEPT ![r.idMeal] = "in"]
                                  [] OTHER -> want
    /\ UNCHANGED <<exitCode, now, ops, menuShown, cacheVars, favFile, favCorrupt,
                   favLoad, detached, orphans, escaped, runs, last>>
    /\ UNCHANGED keyCase

\* a getMealsByIngredient promise settles; nobody handles its rejection
OrphanSettle ==
    /\ Running
    /\ orphans > 0
    /\ orphans' = orphans - 1
    /\ \E rejected \in BOOLEAN :
          escaped' = IF rejected THEN escaped \cup {"op"} ELSE escaped
    /\ UNCHANGED <<pc, exitCode, now, ops, menuShown, cacheVars, favVars, cur,
                   detached, report, histVars>>
    /\ UNCHANGED keyCase

\* the runtime ends the process on an unhandled rejection (the default
\* since Node 15; earlier versions only warn and go on)
Crash ==
    /\ pc \notin {"start", "exited"}
    /\ escaped # {}
    /\ pc' = "exited"
    /\ exitCode' = 1
    /\ UNCHANGED <<now, ops, menuShown, cacheVars, favVars, cur, detached,
                   orphans, escaped, report, histVars>>
    /\ UNCHANGED keyCase

Next ==
    \/ Main
    \/ CacheLoadDone
    \/ FavLoadDone
    \/ CacheCommit
    \/ FavCommit
    \/ Tick
    \/ searchRecipes
    \/ viewRecipeDetails
    \/ exploreByFirstLetter
    \/ searchByIngredient
    \/ viewFavorites
    \/ discoverRandom
    \/ Exit
    \/ FetchSettle
    \/ AfterSave
    \/ DetachedSettle
    \/ DetachedAfterSave
    \/ RaceSettle
    \/ OrphanSettle
    \/ Crash

Spec == Init /\ [][Next]_vars


\* ------------------------------------------------- the keys on their own
\* The cache keys are pure functions of the typed input.  Here two inputs
\* of one prompt are drawn, and the statement of the operation that builds
\* the key is applied to both.
appVars == <<pc, exitCode, now, ops, menuShown, cacheVars, favVars, cur, detached,
            orphans, escaped, report, histVars>>

Strings(alphabet, n) == UNION {[1..k -> alphabet] : k \in 1..n}

\* what passes the blank check of the prompts
QueryStrings == {s \in Strings({"a", "A", "e", "E", " "}, MaxQuery) : ~Blank(s)}
IdStrings == Strings({"1", "2"}, MaxQuery)
LetterStrings(n) == Strings({"a", "A", "b", "c", "e"}, n)

KeyCase(kind, a, b) == [NoKeyCase EXCEPT !.kind = kind, !.a = a, !.b = b]

KeyCases ==
    {KeyCase(kind, a, b) : kind \in {"search", "ingredient"}, a \in QueryStrings,
                           b \in QueryStrings}
    \cup {KeyCase("recipe", a, b) : a \in IdStrings, b \in IdStrings}
    \cup {KeyCase("letters", a, b) : a \in LetterStrings(MaxLetters),
                                  b \in LetterStrings(MaxOther)}

KeyInit ==
    /\ Started
    /\ favFile = <<>>
    /\ ~favCorrupt
    /\ keyCase \in KeyCases

\* line 65
SearchKeys ==
    /\ keyCase.kind = "search"
    /\ keyCase.ka = NoKey
    /\ keyCase' = [keyCase EXCEPT !.ka = SearchKey(keyCase.a),
                                  !.kb = SearchKey(keyCase.b)]
    /\ UNCHANGED appVars

\* line 122
RecipeKeys ==
    /\ keyCase.kind = "recipe"
    /\ keyCase.ka = NoKey
    /\ keyCase' = [keyCase EXCEPT !.ka = RecipeKey(keyCase.a),
                                  !.kb = RecipeKey(keyCase.b)]
    /\ UNCHANGED appVars

\* lines 176 and 188-189
LettersKeys ==
    /\ keyCase.kind = "letters"
    /\ keyCase.ka = NoKey
    /\ keyCase' = [keyCase EXCEPT !.ka = LettersKey(keyCase.a),
                                  !.kb = LettersKey(keyCase.b),
                                  !.api = ApiLetters(keyCase.a)]
    /\ UNCHANGED appVars

\* line 235
IngredientKeys ==
    /\ keyCase.kind = "ingredient"
    /\ keyCase.ka = NoKey
    /\ keyCase' = [keyCase EXCEPT !.ka = IngredientKey(keyCase.a),
                                  !.kb = IngredientKey(keyCase.b)]
    /\ UNCHANGED appVars

KeyNext ==
    \/ SearchKeys
    \/ RecipeKeys
    \/ LettersKeys
    \/ IngredientKeys

KeySpec == KeyInit /\ [][KeyNext]_vars


\* ============================================================= claims

\* C1: for each of the four lookup operations, a run that finds a valid
\* entry under its cache key makes no remote API call, and two runs in
\* succession under the same key, the second inside the TTL window of the
\* entry, call the remote API at most once in total.
C1_NoRemoteCallOnHit ==
    /\ \A i \in 1..Len(runs) : runs[i].hit => runs[i].calls = 0
    /\ (Len(runs) = 2 /\ runs[1].key = runs[2].key /\ runs[2].hit)
          => runs[1].calls + runs[2].calls <= 1

\* C2: once the menu is shown, initializeCache and initializeFavorites have
\* completed and clearExpiredCache has run after them: the cache holds no
\* entry that had already expired at startup (time 1).
C2_SweepAfterInit ==
    menuShown =>
        /\ cacheLoad = "done"
        /\ favLoad \in {"done", "failed"}
        /\ \A e \in cacheMem : e.expiresAt > 1

\* C3: a failed initialization ends the process with code 1 and the main
\* menu is never shown.
C3_InitFailureIsFatal ==
    favLoad = "failed" => ~menuShown /\ pc = "exited" /\ exitCode = 1

\* C4: no cache store and no addFavorite/removeFavorite is started while
\* the persistence write of an earlier one on the same file is pending:
\* each file has at most one such write pending.
C4_OneWriteAtATime ==
    /\ Len(favPending) <= 1
    /\ Cardinality({p \in cachePending : p.owner # 0}) <= 1

\* C5: whatever the remote fetches of a menu choice do, no rejection
\* escapes the operation's failure boundary and the process is not ended
\* by one.
C5_FailureBoundary == "op" \notin escaped

\* C6: the main menu is shown again only after the chosen operation has
\* completed, the recipe-details view it opened included.
C6_MenuAfterCompletion == pc = "menu" => detached = {}

\* C7: in viewRecipeDetails and discoverRandom, once a recipe was found:
\* a favorite is offered removal, any other recipe is offered to be added,
\* and the Favorites Engine call made is the accepted offer, else none.
C7_FavoritesOffer ==
    view.op # "none" =>
        /\ view.offered = (IF view.isFav THEN "remove" ELSE "add")
        /\ view.done = (IF view.accepted THEN view.offered ELSE "none")

\* a record with this id is in the collection
HasRecord(f, id) == \E i \in 1..Len(f) : f[i].idMeal = id

\* C8: at the menu, a recipe whose add the user accepted last is among the
\* favorites a query sees, and one whose removal was accepted last is not.
C8_ReadYourWrites ==
    pc = "menu" =>
        \A id \in Ids :
            /\ want[id] = "in" => HasRecord(favMem, id)
            /\ want[id] = "out" => ~HasRecord(favMem, id)

\* C9: when the process exits through menu option 7, every recipe whose
\* add the user accepted (and did not remove since) is in the favorites
\* file the next start loads.
C9_DurableAtExit ==
    (pc = "exited" /\ exitCode = 0) =>
        \A id \in Ids : want[id] = "in" => HasRecord(favFile, id)

UniqueIds(f) == \A i, j \in 1..Len(f) : f[i].idMeal = f[j].idMeal => i = j

FavoritesUnique ==
    /\ UniqueIds(favMem)
    /\ UniqueIds(favFile)
    /\ \A k \in 1..Len(favPending) : UniqueIds(favPending[k])

\* a step in which the user accepted an add
AddAccepted == Len(favPending') = Len(favPending) + 1 /\ view'.done = "add"

\* the record under the added id is the payload just added
AddedWins ==
    \A i \in 1..Len(favMem) :
        favMem[i].idMeal = view.id => favMem[i] = Recipe(view.id, view.ver)

C11_MissDisplaysFetched ==
    (pc = "menu" /\ last.src \in {"fetched", "thrown"}) =>
        /\ last.src = "fetched"
        /\ last.out = "shown"
        /\ \E e \in cacheMem : e.value = last.val

\* C12: viewRecipeDetails, once its lookup has yielded a value for a
\* non-empty id, has displayed the recipe if the value is one, and has
\* reported 'No recipe found' if it is none.
C12_DetailsOutcome ==
    (pc = "menu" /\ last.op = "details" /\ last.src \in {"hit", "fetched"}) =>
        last.out = IF last.val.t = "recipe" THEN "shown" ELSE "notfound"

\* C13: searchRecipes, exploreByFirstLetter and searchByIngredient, once
\* their lookup has yielded a value, offer to view details exactly when
\* the value is a non-empty list of recipes.
C13_DetailsOffer ==
    (pc = "menu" /\ last.op \in {"search", "letters", "ingredient"}
                /\ last.src \in {"hit", "fetched"}) =>
        last.offered = NonEmptyList(last.val)

\* C14 as stated: discoverRandom displays a recipe whenever one of its
\* three requests resolves with a recipe, whatever the others do.
C14_AnyRecipeIsDisplayed ==
    (race.calls = RandomCalls /\ (race.first.t = "recipe" \/ race.later)) =>
        race.shown.t = "recipe"

\* C14: discoverRandom starts three requests and acts on the first one to
\* settle: its recipe is displayed if it resolved with one, and no recipe
\* is displayed if it resolved with nothing or was rejected, even when a
\* later request resolves with a recipe.
C14_FirstSettledDecides ==
    race.calls # 0 =>
        /\ race.calls = RandomCalls
        /\ race.shown = IF race.first.t = "recipe" THEN race.first ELSE VNull

\* C14 witness: the first request to settle was rejected, a later one
\* resolved with a recipe, and no recipe was displayed
C14_Witness ==
    /\ race.calls = RandomCalls
    /\ race.first = VReject
    /\ race.later
    /\ race.shown = VNull
    /\ report = "error"

\* the letters of an input, case set aside
LetterSet(s) == {Lower(s[i]) : i \in 1..Len(s)}
IsLowerCase(s) == \A i \in 1..Len(s) : s[i] \notin {"A", "B", "E"}
SameButCase(s, t) ==
    /\ Len(s) = Len(t)
    /\ \A i \in 1..Len(s) : Lower(s[i]) = Lower(t[i])

\* C15: the keys follow the convention and are canonical.  A search or
\* ingredient key is its prefix with the input in lower case, and inputs
\* that differ only in case have the same key; a details key is its
\* prefix with the id; a letters key is its prefix with at most 3
\* lower-case letters of the input, sorted and without repetition, two
\* inputs with the same set of at most 3 letters have the same key, and
\* the letters given to the API are those of the key.
C15_KeysCanonical ==
    keyCase.ka # NoKey =>
        LET a == keyCase.a
            b == keyCase.b
            ka == keyCase.ka
            kb == keyCase.kb
        IN /\ ka.kind = keyCase.kind
           /\ keyCase.kind \in {"search", "ingredient"} =>
                 /\ IsLowerCase(ka.arg)
                 /\ SameButCase(ka.arg, a)
                 /\ SameButCase(a, b) => ka = kb
           /\ keyCase.kind = "recipe" => ka.arg = a
           /\ keyCase.kind = "letters" =>
                 /\ Len(ka.arg) <= 3
                 /\ IsLowerCase(ka.arg)
                 /\ \A i \in 1..(Len(ka.arg) - 1) : Ord(ka.arg[i]) < Ord(ka.arg[i + 1])
                 /\ LetterSet(ka.arg) \subseteq LetterSet(a)
                 /\ Cardinality(LetterSet(a)) <= 3 => LetterSet(ka.arg) = LetterSet(a)
                 /\ (LetterSet(a) = LetterSet(b) /\ Cardinality(LetterSet(a)) <= 3)
                       => ka = kb
                 /\ LetterSet(keyCase.api) = LetterSet(ka.arg)

\* C15 witness: "bAa" and "abb" differ in order, case and repetition and
\* both have the key letters_ab
C15_Witness ==
    /\ keyCase.kind = "letters"
    /\ keyCase.a = <<"b", "A", "a">>
    /\ keyCase.b = <<"a", "b", "b">>
    /\ keyCase.ka = [kind |-> "letters", arg |-> <<"a", "b">>]
    /\ keyCase.kb = keyCase.ka
    /\ keyCase.api = <<"a", "b">>

\* an input of no characters, or of spaces only
WhiteOnly(s) == \A i \in 1..Len(s) : s[i] = " "

\* a menu choice 1-4 is made and the input typed at its prompt is blank
BlankChoice ==
    /\ pc = "menu"
    /\ ops' = ops + 1
    /\ last'.op \in {"search", "details", "letters", "ingredient"}
    /\ WhiteOnly(last'.input)

\* C16: a menu choice 1-4 given an empty or whitespace-only input prints
\* its message and is back at the menu in the same step: no remote call
\* is started, the cache is neither looked up nor written, the favorites
\* are not touched, and cache and favorites state stay as they were.
C16_BlankInputFrame ==
    [][BlankChoice =>
          /\ report' = "empty"
          /\ pc' = "menu"
          /\ last'.src = "none"
          /\ UNCHANGED <<cacheVars, favVars, runs, orphans, detached, cur, view,
                         want, escaped>>]_vars

\* C16 witness: spaces typed at the prompt of exploreByFirstLetter, with a
\* loaded cache and loaded favorites, and the message printed
C16_Witness ==
    /\ pc = "menu"
    /\ report = "empty"
    /\ last.op = "letters"
    /\ last.input = <<" ", " ">>
    /\ cacheMem # {}
    /\ favMem # <<>>

\* C17: the process ends only with code 0, on menu option 7, or with
\* code 1, when initialization failed or a fatal error reached the
\* handler of main.
C17_ExitWays ==
    pc = "exited" => \/ exitCode = 0
                     \/ exitCode = 1 /\ favLoad = "failed"


====
